---- MODULE Spec2Model ----
\* The verify screen of cargo-crev (cargo-crev/src/tui/verify_screen.rs):
\* the layout of the screen regions, the refresh tick, the scroll commands,
\* the magnitude formatter u64_to_str and the column width allocation.
\* TableView (crate::tui::table_view) and TableComputationStatus (crate::dep)
\* are modelled from their contract, the rest from verify_screen.rs.
EXTENDS Integers, Sequences, FiniteSets, TLC

VARIABLES
    screen,     \* the VerifyScreen object: regions, table_view, last_dimensions
    term,       \* what terminal_size() returns now: <<width, height>>
    table,      \* the DepTable of the data source: deps, computation_status
    drawn,      \* what the surface shows in each region
    crashed,    \* the process has panicked
    overflow_checks, \* build profile: TRUE panics on integer overflow, FALSE wraps
    last,       \* the last operation and what it did (op, cleared, iab, added)
    fmt,        \* a call of u64_to_str: its argument v, its result out
    live_drawn  \* history: a tick has drawn the table as live rows

vars == <<screen, term, table, drawn, crashed, overflow_checks, last, fmt, live_drawn>>

-----------------------------------------------------------------------------
\* Bounds of the model

\* the data source holds at most MaxRows deps
MaxRows == 3
\* scroll commands take a delta in -MaxDelta..MaxDelta (and +/- BigDelta)
MaxDelta == 1

\* a delta larger than any row count or viewport of the model
BigDelta == 100
\* column sets of 1..MaxCols columns, laid out in widths 0..MaxAvail
MaxCols == 3
MaxAvail == 10

\* terminal sizes terminal_size() reports (u16, u16): heights below, at and
\* above the 4 reserved rows, odd and even widths
Sizes == {<<0, 0>>, <<9, 3>>, <<80, 4>>, <<80, 5>>, <<9, 6>>, <<80, 7>>}
Deltas == (-MaxDelta..MaxDelta) \cup {-BigDelta, BigDelta}

\* u16 arithmetic
U16 == 65536

Max(a, b) == IF a >= b THEN a ELSE b
Min(a, b) == IF a <= b THEN a ELSE b

-----------------------------------------------------------------------------
\* termimad Area and the columns of the table

Area(l, t, w, h) == [left |-> l, top |-> t, width |-> w, height |-> h]

Column(name, min_width, max_width) ==
    [name |-> name, min_width |-> min_width, max_width |-> max_width]

\* the 13 columns VerifyScreen::new builds
Columns ==
    << Column("crate", 10, 80),
       Column("version", 9, 13),
       Column("trust", 6, 6),
       Column("last trusted", 12, 16),
       Column("reviews", 3, 3),
       Column("reviews", 3, 3),
       Column("downloads", 6, 6),
       Column("downloads", 6, 6),
       Column("owners", 2, 2),
       Column("owners", 3, 3),
       Column("issues", 2, 2),
       Column("issues", 3, 3),
       Column("l.o.c.", 6, 6) >>

RECURSIVE SumMin(_)
SumMin(cols) ==
    IF cols = <<>> THEN 0 ELSE Head(cols).min_width + SumMin(Tail(cols))

RECURSIVE SumSeq(_)
SumSeq(s) ==
    IF s = <<>> THEN 0 ELSE Head(s) + SumSeq(Tail(s))

\* narrow case: min_width left to right while the budget lasts, then zero
RECURSIVE AllocNarrow(_, _, _)
AllocNarrow(cols, budget, open) ==
    IF cols = <<>> THEN <<>>
    ELSE LET m == Head(cols).min_width
             fits == open /\ m <= budget
         IN  <<IF fits THEN m ELSE 0>>
             \o AllocNarrow(Tail(cols), IF fits THEN budget - m ELSE budget, fits)

\* wide case: each column absorbs up to max_width - min_width of the slack
RECURSIVE AllocWide(_, _)
AllocWide(cols, slack) ==
    IF cols = <<>> THEN <<>>
    ELSE LET c == Head(cols)
             extra == Min(slack, c.max_width - c.min_width)
         IN  <<c.min_width + extra>> \o AllocWide(Tail(cols), slack - extra)

\* the width allocation of the column model
allocate_widths(cols, available) ==
    IF SumMin(cols) > available
    THEN AllocNarrow(cols, available, TRUE)
    ELSE AllocWide(cols, available - SumMin(cols))

-----------------------------------------------------------------------------
\* TableView: the virtualized table buffer

tbody_height(tv) == tv.area.height
row_count(tv) == Len(tv.rows)
max_scroll(tv) == Max(0, row_count(tv) - tbody_height(tv))
clamp_scroll(tv, s) == Max(0, Min(s, max_scroll(tv)))

\* is_at_bottom
do_scroll_show_bottom(tv) == tv.scroll = max_scroll(tv)

scroll_to_bottom(tv) == [tv EXCEPT !.scroll = max_scroll(tv)]

add_row(tv, dep) == [tv EXCEPT !.rows = Append(tv.rows, dep)]

table_try_scroll_lines(tv, lines_count) ==
    [tv EXCEPT !.scroll = clamp_scroll(tv, tv.scroll + lines_count)]

table_try_scroll_pages(tv, pages_count) ==
    table_try_scroll_lines(tv, pages_count * tbody_height(tv))

\* the area has changed: new column widths, scroll re-clamped to the viewport
update_dimensions(tv) ==
    [tv EXCEPT !.widths = allocate_widths(tv.columns, tv.area.width),
               !.scroll = clamp_scroll(tv, tv.scroll)]

visible_slice(tv) ==
    SubSeq(tv.rows, tv.scroll + 1, Min(tv.scroll + tbody_height(tv), row_count(tv)))

\* what display() puts in the table region: the rows of the visible slice
display(tv) == "live"

TableView_new(area, columns) ==
    update_dimensions([area |-> area, columns |-> columns, rows |-> <<>>,
                       scroll |-> 0, widths |-> <<>>])

-----------------------------------------------------------------------------
\* TableComputationStatus and the DepTable of the data source

Status(kind, done, total) == [kind |-> kind, done |-> done, total |-> total]

StatusNew == Status("New", 0, 0)
StatusDone == Status("Done", 0, 0)

\* the progress counters the source reports in a phase
Progresses == {<<0, 1>>, <<1, 1>>}

Statuses ==
    {StatusNew, StatusDone}
    \cup { Status(k, p[1], p[2]) : k \in {"ComputingGeiger", "ComputingTrust"},
                                   p \in Progresses }

Rank(status) ==
    CASE status.kind = "New" -> 0
      [] status.kind = "ComputingGeiger" -> 1
      [] status.kind = "ComputingTrust" -> 2
      [] OTHER -> 3

is_before_deps(status) == status.kind = "New"

\* the i-th dep the source produced; a row record's identity is its append order
Dep(i) == i

-----------------------------------------------------------------------------
\* VerifyScreen

Blank == "blank"

BlankSurface ==
    [title |-> Blank, table |-> Blank, status |-> Blank, input |-> Blank, hint |-> Blank]

\* the struct literal of VerifyScreen::new, before its call of resize
NewFields ==
    [ title_area |-> Area(0, 0, 10, 1),
      status_area |-> Area(0, 2, 10, 1),
      input_area |-> Area(0, 3, 10, 1),
      hint_area |-> Area(0, 3, 10, 1),
      table_view |-> TableView_new(Area(0, 1, 10, 10), Columns),
      last_dimensions |-> <<0, 0>> ]

\* u16 subtraction as the build does it: wrapped when overflow is not checked
Sub16(a, b) == (a - b) % U16

\* the assignments of resize once the size has changed (no overflow panic)
resize_skips_update_dimensions(self, size) ==
    LET w == size[1]
        h == size[2]
        iw == w \div 2
    IN  [self EXCEPT !.last_dimensions = size,
                     !.title_area.width = w,
                     !.table_view.area.width = w,
                     !.table_view.area.height = Sub16(h, 4),
                     !.status_area.top = Sub16(h, 3),
                     !.status_area.width = w,
                     !.input_area.top = Sub16(h, 2),
                     !.input_area.width = iw,
                     !.hint_area.top = Sub16(h, 2),
                     !.hint_area.left = iw,
                     !.hint_area.width = w - iw]

resize_hint_gets_half(self, size) ==
    LET w == size[1]
        h == size[2]
        iw == w \div 2
        tv == update_dimensions(
                  [self.table_view EXCEPT !.area.width = w,
                                          !.area.height = Sub16(h, 4)])
    IN  [self EXCEPT !.last_dimensions = size,
                     !.title_area.width = w,
                     !.table_view = tv,
                     !.status_area.top = Sub16(h, 3),
                     !.status_area.width = w,
                     !.input_area.top = Sub16(h, 2),
                     !.input_area.width = iw,
                     !.hint_area.top = Sub16(h, 2),
                     !.hint_area.left = iw,
                     !.hint_area.width = iw]

resize_keeps_table_width(self, size) ==
    LET w == size[1]
        h == size[2]
        iw == w \div 2
        tv == update_dimensions(
                  [self.table_view EXCEPT !.area.height = Sub16(h, 4)])
    IN  [self EXCEPT !.last_dimensions = size,
                     !.title_area.width = w,
                     !.table_view = tv,
                     !.status_area.top = Sub16(h, 3),
                     !.status_area.width = w,
                     !.input_area.top = Sub16(h, 2),
                     !.input_area.width = iw,
                     !.hint_area.top = Sub16(h, 2),
                     !.hint_area.left = iw,
                     !.hint_area.width = w - iw]

resize_fields(self, size) ==
    LET w == size[1]
        h == size[2]
        iw == w \div 2
        tv == update_dimensions(
                  [self.table_view EXCEPT !.area.width = w,
                                          !.area.height = Sub16(h, 4)])
    IN  [self EXCEPT !.last_dimensions = size,
                     !.title_area.width = w,
                     !.table_view = tv,
                     !.status_area.top = Sub16(h, 3),
                     !.status_area.width = w,
                     !.input_area.top = Sub16(h, 2),
                     !.input_area.width = iw,
                     !.hint_area.top = Sub16(h, 2),
                     !.hint_area.left = iw,
                     !.hint_area.width = w - iw]

\* the assignments resize has made when h - 4 panics (overflow checked, h < 4)
resize_panicked(self, size) ==
    [self EXCEPT !.last_dimensions = size,
                 !.title_area.width = size[1],
                 !.table_view.area.width = size[1]]

resize_without_short_circuit(self, size, checks) ==
    IF checks /\ size[2] < 4
    THEN [self |-> resize_panicked(self, size), cleared |-> TRUE, panicked |-> TRUE]
    ELSE [self |-> resize_fields(self, size), cleared |-> TRUE, panicked |-> FALSE]

\* resize: the object, whether the surface was cleared, whether it panicked
resize(self, size, checks) ==
    IF size = self.last_dimensions
    THEN [self |-> self, cleared |-> FALSE, panicked |-> FALSE]
    ELSE IF checks /\ size[2] < 4
    THEN [self |-> resize_panicked(self, size), cleared |-> TRUE, panicked |-> TRUE]
    ELSE [self |-> resize_fields(self, size), cleared |-> TRUE, panicked |-> FALSE]

update_title(self) == "title"

\* the loop of update_table_view: add_row for i in from..deps.len()
RECURSIVE add_rows(_, _, _)
add_rows(tv, deps, i) ==
    IF i > Len(deps) THEN tv ELSE add_rows(add_row(tv, deps[i]), deps, i + 1)

update_table_view_iab_after_append(self, tbl) ==
    IF is_before_deps(tbl.computation_status)
    THEN [table_view |-> self.table_view, drawn |-> "preparing table",
          iab |-> FALSE, added |-> 0]
    ELSE LET tv0 == self.table_view
             tv1 == add_rows(tv0, tbl.deps, row_count(tv0) + 1)
             iab == do_scroll_show_bottom(tv1)
             tv2 == IF iab THEN scroll_to_bottom(tv1) ELSE tv1
         IN  [table_view |-> tv2, drawn |-> display(tv2),
              iab |-> iab, added |-> row_count(tv1) - row_count(tv0)]

update_table_view_always_follows(self, tbl) ==
    IF is_before_deps(tbl.computation_status)
    THEN [table_view |-> self.table_view, drawn |-> "preparing table",
          iab |-> FALSE, added |-> 0]
    ELSE LET tv0 == self.table_view
             iab == do_scroll_show_bottom(tv0)
             tv1 == add_rows(tv0, tbl.deps, row_count(tv0) + 1)
             tv2 == scroll_to_bottom(tv1)
         IN  [table_view |-> tv2, drawn |-> display(tv2),
              iab |-> iab, added |-> row_count(tv1) - row_count(tv0)]

update_table_view_placeholder_when_empty(self, tbl) ==
    IF tbl.deps = <<>>
    THEN [table_view |-> self.table_view, drawn |-> "preparing table",
          iab |-> FALSE, added |-> 0]
    ELSE LET tv0 == self.table_view
             iab == do_scroll_show_bottom(tv0)
             tv1 == add_rows(tv0, tbl.deps, row_count(tv0) + 1)
             tv2 == IF iab THEN scroll_to_bottom(tv1) ELSE tv1
         IN  [table_view |-> tv2, drawn |-> display(tv2),
              iab |-> iab, added |-> row_count(tv1) - row_count(tv0)]

update_table_view_readds_all(self, tbl) ==
    IF is_before_deps(tbl.computation_status)
    THEN [table_view |-> self.table_view, drawn |-> "preparing table",
          iab |-> FALSE, added |-> 0]
    ELSE LET tv0 == self.table_view
             iab == do_scroll_show_bottom(tv0)
             tv1 == add_rows(tv0, tbl.deps, 1)
             tv2 == IF iab THEN scroll_to_bottom(tv1) ELSE tv1
         IN  [table_view |-> tv2, drawn |-> display(tv2),
              iab |-> iab, added |-> row_count(tv1) - row_count(tv0)]

update_table_view_live_while_computing(self, tbl) ==
    IF tbl.computation_status.kind \in {"New", "Done"}
    THEN [table_view |-> self.table_view, drawn |-> "preparing table",
          iab |-> FALSE, added |-> 0]
    ELSE LET tv0 == self.table_view
             iab == do_scroll_show_bottom(tv0)
             tv1 == add_rows(tv0, tbl.deps, row_count(tv0) + 1)
             tv2 == IF iab THEN scroll_to_bottom(tv1) ELSE tv1
         IN  [table_view |-> tv2, drawn |-> display(tv2),
              iab |-> iab, added |-> row_count(tv1) - row_count(tv0)]

\* update_table_view: the new table_view, what is drawn, and the locals iab, added
update_table_view(self, tbl) ==
    IF is_before_deps(tbl.computation_status)
    THEN [table_view |-> self.table_view, drawn |-> "preparing table",
          iab |-> FALSE, added |-> 0]
    ELSE LET tv0 == self.table_view
             iab == do_scroll_show_bottom(tv0)
             tv1 == add_rows(tv0, tbl.deps, row_count(tv0) + 1)
             tv2 == IF iab THEN scroll_to_bottom(tv1) ELSE tv1
         IN  [table_view |-> tv2, drawn |-> display(tv2),
              iab |-> iab, added |-> row_count(tv1) - row_count(tv0)]

update_status(self, tbl) ==
    LET s == tbl.computation_status
        text == CASE s.kind = "New" -> <<"Computation starting...">>
                  [] s.kind = "ComputingGeiger" -> <<"Computing Geiger : ", s.done, " / ", s.total>>
                  [] s.kind = "ComputingTrust" -> <<"Computing Trust : ", s.done, " / ", s.total>>
                  [] s.kind = "Done" -> <<"Computation finished">>
    IN  text

update_input(self) == ""

update_hint_by_rows(self, tbl) ==
    IF tbl.deps = <<>>
    THEN "Hit *ctrl-q* to quit"
    ELSE "Hit *ctrl-q* to quit, *PageUp* or *PageDown* to scroll"

update_hint(self, tbl) ==
    IF is_before_deps(tbl.computation_status)
    THEN "Hit *ctrl-q* to quit"
    ELSE "Hit *ctrl-q* to quit, *PageUp* or *PageDown* to scroll"

\* the VerifyScreen scroll commands
try_scroll_lines(self, lines_count) ==
    [self EXCEPT !.table_view = table_try_scroll_lines(self.table_view, lines_count)]

try_scroll_pages_as_lines(self, pages_count) ==
    [self EXCEPT !.table_view = table_try_scroll_lines(self.table_view, pages_count)]

try_scroll_pages(self, pages_count) ==
    [self EXCEPT !.table_view = table_try_scroll_pages(self.table_view, pages_count)]

\* one step of a tick: the method called and the region it worked on
Step(name, area) == [step |-> name, area |-> area]

update_for_title_before_resize(self, tbl, size, checks, surface) ==
    LET r == resize(self, size, checks)
        base == IF r.cleared THEN BlankSurface ELSE surface
        t == update_table_view(r.self, tbl)
        self2 == [r.self EXCEPT !.table_view = t.table_view]
    IN  IF r.panicked
        THEN [self |-> r.self, panicked |-> TRUE, drawn |-> base,
              cleared |-> r.cleared, iab |-> FALSE, added |-> 0,
              steps |-> <<Step("update_title", self.title_area),
                          Step("resize", Area(0, 0, size[1], size[2]))>>]
        ELSE [self |-> self2, panicked |-> FALSE,
              drawn |-> [title |-> IF r.cleared THEN Blank ELSE update_title(self),
                         table |-> t.drawn,
                         status |-> update_status(self2, tbl),
                         input |-> update_input(self2),
                         hint |-> update_hint(self2, tbl)],
              cleared |-> r.cleared, iab |-> t.iab, added |-> t.added,
              steps |-> <<Step("update_title", self.title_area),
                          Step("resize", Area(0, 0, size[1], size[2])),
                          Step("update_table_view", r.self.table_view.area),
                          Step("update_status", self2.status_area),
                          Step("update_input", self2.input_area),
                          Step("update_hint", self2.hint_area)>>]

\* update_for: the object, the surface, the locals of update_table_view and
\* the calls made in the order they were made; a panic in resize ends the tick
update_for(self, tbl, size, checks, surface) ==
    LET r == resize(self, size, checks)
        base == IF r.cleared THEN BlankSurface ELSE surface
        t == update_table_view(r.self, tbl)
        self2 == [r.self EXCEPT !.table_view = t.table_view]
    IN  IF r.panicked
        THEN [self |-> r.self, panicked |-> TRUE, drawn |-> base,
              cleared |-> r.cleared, iab |-> FALSE, added |-> 0,
              steps |-> <<Step("resize", Area(0, 0, size[1], size[2]))>>]
        ELSE [self |-> self2, panicked |-> FALSE,
              drawn |-> [title |-> update_title(r.self),
                         table |-> t.drawn,
                         status |-> update_status(self2, tbl),
                         input |-> update_input(self2),
                         hint |-> update_hint(self2, tbl)],
              cleared |-> r.cleared, iab |-> t.iab, added |-> t.added,
              steps |-> <<Step("resize", Area(0, 0, size[1], size[2])),
                          Step("update_title", r.self.title_area),
                          Step("update_table_view", r.self.table_view.area),
                          Step("update_status", self2.status_area),
                          Step("update_input", self2.input_area),
                          Step("update_hint", self2.hint_area)>>]

Last(op, cleared, iab, added) ==
    [op |-> op, cleared |-> cleared, iab |-> iab, added |-> added, steps |-> <<>>]

-----------------------------------------------------------------------------
\* u64_to_str: the magnitude formatter
\* A u64 is held as its 7 base-1024 digits, lowest first (6 digits of 10 bits
\* and a top digit of 4 bits), so that v >>= 10 and v >= 1200 are exact over
\* the whole 64-bit range.

LimbBase == 1024
NumLimbs == 7
Threshold == 1200

SIZE_NAMES == <<"", "K", "M", "G", "T", "P", "E", "Z", "Y">>

\* the u64 values the formatter is called with: 0, 999, 1199, 1200, the
\* values around each unit boundary, u64::MAX
Limb1Values == {0, 1, 175, 176, 999, 1023}
Limb2Values == {0, 1, 2, 1023}
LimbValues == {0, 1, 1023}
TopLimbValues == {0, 15}
U64Values ==
    { <<a, b, c, d, e, f, g>> :
        a \in Limb1Values, b \in Limb2Values, c \in LimbValues, d \in LimbValues,
        e \in LimbValues, f \in LimbValues, g \in TopLimbValues }

U64Zero == [i \in 1..NumLimbs |-> 0]

\* v == 0
IsZero(v) == \A i \in 1..Len(v) : v[i] = 0

\* v >= 1200
GeThreshold(v) ==
    \/ \E i \in 3..Len(v) : v[i] # 0
    \/ v[2] * LimbBase + v[1] >= Threshold

\* v >>= 10
Shr10(v) == Tail(v) \o <<0>>

\* the value of v as an integer, for a v below 2^30
RECURSIVE ToNat(_)
ToNat(v) ==
    IF v = <<>> THEN 0 ELSE Head(v) + LimbBase * ToNat(Tail(v))

Digits == <<"0", "1", "2", "3", "4", "5", "6", "7", "8", "9">>

\* format!("{}", n): the decimal digits of n
RECURSIVE DecStr(_)
DecStr(n) ==
    IF n < 10 THEN <<Digits[n + 1]>>
    ELSE DecStr(n \div 10) \o <<Digits[(n % 10) + 1]>>

\* a suffix as the characters it adds to the output
SuffixStr(name) == IF name = "" THEN <<>> ELSE <<name>>

\* the while loop of u64_to_str
RECURSIVE reduce(_, _)
reduce(v, i) ==
    IF GeThreshold(v) /\ i < Len(SIZE_NAMES) - 1
    THEN reduce(Shr10(v), i + 1)
    ELSE [v |-> v, i |-> i]

u64_to_str_reduces_from_1024(v) ==
    LET RECURSIVE loop(_, _)
        loop(x, i) ==
            IF (\E k \in 2..Len(x) : x[k] # 0) /\ i < Len(SIZE_NAMES) - 1
            THEN loop(Shr10(x), i + 1)
            ELSE [v |-> x, i |-> i]
        r == loop(v, 0)
    IN  IF IsZero(v) THEN <<>>
        ELSE DecStr(ToNat(r.v)) \o SuffixStr(SIZE_NAMES[r.i + 1])

u64_to_str_suffix_one_ahead(v) ==
    IF IsZero(v) THEN <<>>
    ELSE LET r == reduce(v, 0)
         IN  DecStr(ToNat(r.v)) \o SuffixStr(SIZE_NAMES[r.i + 2])

u64_to_str_reduces_above_1200(v) ==
    LET RECURSIVE loop(_, _)
        loop(x, i) ==
            IF /\ \/ \E k \in 3..Len(x) : x[k] # 0
                  \/ x[2] * LimbBase + x[1] > Threshold
               /\ i < Len(SIZE_NAMES) - 1
            THEN loop(Shr10(x), i + 1)
            ELSE [v |-> x, i |-> i]
        r == loop(v, 0)
    IN  IF IsZero(v) THEN <<>>
        ELSE DecStr(ToNat(r.v)) \o SuffixStr(SIZE_NAMES[r.i + 1])

\* u64_to_str: the output as a sequence of characters
u64_to_str(v) ==
    IF IsZero(v) THEN <<>>
    ELSE LET r == reduce(v, 0)
         IN  DecStr(ToNat(r.v)) \o SuffixStr(SIZE_NAMES[r.i + 1])

-----------------------------------------------------------------------------
\* The screen and its environment

InitScreen ==
    /\ term \in Sizes
    /\ overflow_checks \in BOOLEAN
    /\ table = [deps |-> <<>>, computation_status |-> StatusNew]
    /\ LET r == resize(NewFields, term, overflow_checks)
       IN  /\ screen = r.self
           /\ crashed = r.panicked
           /\ last = Last("new", r.cleared, FALSE, 0)
    /\ drawn = BlankSurface
    /\ live_drawn = FALSE

\* VerifyScreen::resize called on its own
Resize ==
    /\ ~crashed
    /\ LET r == resize(screen, term, overflow_checks)
       IN  /\ screen' = r.self
           /\ crashed' = r.panicked
           /\ drawn' = IF r.cleared THEN BlankSurface ELSE drawn
           /\ last' = Last("resize", r.cleared, FALSE, 0)
    /\ UNCHANGED <<term, table, overflow_checks, fmt, live_drawn>>

\* VerifyScreen::update_for: one refresh tick
UpdateFor ==
    /\ ~crashed
    /\ LET u == update_for(screen, table, term, overflow_checks, drawn)
       IN  /\ screen' = u.self
           /\ crashed' = u.panicked
           /\ drawn' = u.drawn
           /\ last' = [Last("update_for", u.cleared, u.iab, u.added)
                          EXCEPT !.steps = u.steps]
           /\ live_drawn' = (live_drawn \/ (~u.panicked /\ u.drawn.table = "live"))
    /\ UNCHANGED <<term, table, overflow_checks, fmt>>

TryScrollLines ==
    /\ ~crashed
    /\ \E d \in Deltas :
          /\ screen' = try_scroll_lines(screen, d)
          /\ last' = Last("try_scroll_lines", FALSE, FALSE, 0)
    /\ UNCHANGED <<term, table, drawn, crashed, overflow_checks, fmt, live_drawn>>

TryScrollPages ==
    /\ ~crashed
    /\ \E d \in Deltas :
          /\ screen' = try_scroll_pages(screen, d)
          /\ last' = Last("try_scroll_pages", FALSE, FALSE, 0)
    /\ UNCHANGED <<term, table, drawn, crashed, overflow_checks, fmt, live_drawn>>

\* the user resizes the terminal
TerminalResized ==
    /\ ~crashed
    /\ \E size \in Sizes :
          /\ size # term
          /\ term' = size
    /\ last' = Last("env", FALSE, FALSE, 0)
    /\ UNCHANGED <<screen, table, drawn, crashed, overflow_checks, fmt, live_drawn>>

\* the data source appends a dep
SourceAppend ==
    /\ ~crashed
    /\ Len(table.deps) < MaxRows
    /\ table' = [table EXCEPT !.deps = Append(table.deps, Dep(Len(table.deps) + 1))]
    /\ last' = Last("env", FALSE, FALSE, 0)
    /\ UNCHANGED <<screen, term, drawn, crashed, overflow_checks, fmt, live_drawn>>

\* the data source publishes another computation status
SourceStatus ==
    /\ ~crashed
    /\ \E s \in Statuses :
          /\ s # table.computation_status
          /\ Rank(s) >= Rank(table.computation_status)
          /\ table' = [table EXCEPT !.computation_status = s]
    /\ last' = Last("env", FALSE, FALSE, 0)
    /\ UNCHANGED <<screen, term, drawn, crashed, overflow_checks, fmt, live_drawn>>

Init ==
    /\ InitScreen
    /\ fmt = [v |-> U64Zero, out |-> <<>>, done |-> FALSE]

Next ==
    \/ Resize
    \/ UpdateFor
    \/ TryScrollLines
    \/ TryScrollPages
    \/ TerminalResized
    \/ SourceAppend
    \/ SourceStatus

Spec == Init /\ [][Next]_vars

\* the data source breaks its contract: it publishes an earlier status
SourceRegresses ==
    /\ ~crashed
    /\ \E s \in Statuses :
          /\ Rank(s) < Rank(table.computation_status)
          /\ table' = [table EXCEPT !.computation_status = s]
    /\ last' = Last("env", FALSE, FALSE, 0)
    /\ UNCHANGED <<screen, term, drawn, crashed, overflow_checks, fmt, live_drawn>>

NextRegress ==
    \/ Resize
    \/ UpdateFor
    \/ TryScrollLines
    \/ TryScrollPages
    \/ TerminalResized
    \/ SourceAppend
    \/ SourceStatus
    \/ SourceRegresses

\* the screen with a data source that may also move the status backward
SpecRegress == Init /\ [][NextRegress]_vars

\* a screen that is constructed and left alone
IdleScreen ==
    /\ term = <<0, 0>>
    /\ overflow_checks = FALSE
    /\ table = [deps |-> <<>>, computation_status |-> StatusNew]
    /\ screen = NewFields
    /\ crashed = FALSE
    /\ last = Last("new", FALSE, FALSE, 0)
    /\ drawn = BlankSurface
    /\ live_drawn = FALSE

\* a cell function calls u64_to_str on a count of the dep
InitFmt ==
    /\ IdleScreen
    /\ fmt \in [v : U64Values, out : {<<>>}, done : {FALSE}]

Format ==
    /\ ~fmt.done
    /\ fmt' = [fmt EXCEPT !.out = u64_to_str(fmt.v), !.done = TRUE]
    /\ UNCHANGED <<screen, term, table, drawn, crashed, overflow_checks, last, live_drawn>>

SpecFmt == InitFmt /\ [][Format]_vars

\* column sets: every sequence of 1..MaxCols columns with bounds in ColWidths,
\* min_width <= max_width, and the 13 columns of the screen
ColWidths == {0, 1, 3}
ColumnChoices ==
    { Column("c", b[1], b[2]) : b \in {x \in ColWidths \X ColWidths : x[1] <= x[2]} }
ColumnSets ==
    UNION { [1..n -> ColumnChoices] : n \in 1..MaxCols }
\* surface widths around the sums of the 13 columns' min_width (71) and
\* max_width (149)
ScreenWidths == {0, 9, 70, 71, 72, 80, 148, 149, 150, 200}

\* a screen built with some columns on a 0 x 0 terminal, which is then resized
InitAlloc ==
    /\ \/ \E cols \in ColumnSets, w \in 0..MaxAvail :
             /\ screen = [NewFields EXCEPT
                            !.table_view = TableView_new(Area(0, 1, 10, 10), cols)]
             /\ term = <<w, 6>>
       \/ \E w \in ScreenWidths :
             /\ screen = NewFields
             /\ term = <<w, 6>>
    /\ overflow_checks = FALSE
    /\ table = [deps |-> <<>>, computation_status |-> StatusNew]
    /\ crashed = FALSE
    /\ last = Last("new", FALSE, FALSE, 0)
    /\ drawn = BlankSurface
    /\ live_drawn = FALSE
    /\ fmt = [v |-> U64Zero, out |-> <<>>, done |-> FALSE]

SpecAlloc == InitAlloc /\ [][Resize]_vars

-----------------------------------------------------------------------------
\* Properties of the screen

\* the scroll state of the table buffer
Offset == screen.table_view.scroll
TotalRows == Len(screen.table_view.rows)
ViewportHeight == screen.table_view.area.height
BottomOffset(tv) ==
    IF Len(tv.rows) > tv.area.height THEN Len(tv.rows) - tv.area.height ELSE 0
AtBottom(tv) == tv.scroll = BottomOffset(tv)
Live == table.computation_status.kind # "New"
\* the tick that has just run to its end
TickDone == last.op = "update_for" /\ ~crashed
\* the table view as the tick's resize check leaves it, before the table update
AfterResizeCheck == resize(screen, term, overflow_checks).self.table_view

\* C1: after every append, scroll_by_lines, scroll_by_pages and viewport change
\* the scroll offset lies in 0 .. max(0, total_rows - viewport_height).
C1_OffsetInRange ==
    /\ 0 <= Offset
    /\ Offset <= (IF TotalRows - ViewportHeight > 0 THEN TotalRows - ViewportHeight ELSE 0)

\* a scroll command has moved the view to a bottom that is not the top
C1_Witness ==
    /\ last.op \in {"try_scroll_lines", "try_scroll_pages"}
    /\ Offset > 0
    /\ Offset = TotalRows - ViewportHeight

\* C2 as stated: a view at bottom when a live tick starts is at bottom after
\* the tick, when the tick has appended rows (here on surfaces of 5 rows or
\* more, before and in the tick).
C2_AtBottomAtTickStart ==
    [][ ( /\ last'.op = "update_for" /\ ~crashed'
          /\ Live
          /\ screen.last_dimensions[2] >= 5 /\ term[2] >= 5
          /\ AtBottom(screen.table_view)
          /\ Len(screen'.table_view.rows) > Len(screen.table_view.rows) )
        => AtBottom(screen'.table_view) ]_vars

\* C2 amended: a view that is at bottom when the tick's table update starts,
\* that is after the tick's resize check has applied the surface size, is at
\* bottom after the tick, when the tick has appended rows.
C2_StickyTail ==
    [][ ( /\ last'.op = "update_for" /\ ~crashed'
          /\ Live
          /\ AtBottom(AfterResizeCheck)
          /\ Len(screen'.table_view.rows) > Len(screen.table_view.rows) )
        => AtBottom(screen'.table_view) ]_vars

\* a tick has followed the tail: it found the view at bottom, appended rows
\* and left the view at a bottom that is not the top
C2_Witness ==
    /\ TickDone /\ Live
    /\ last.iab /\ last.added > 0
    /\ Offset > 0

\* C3 as stated: a view not at bottom when a live tick starts keeps its offset
\* over the rows the tick appends (here on surfaces of 5 rows or more, before
\* and in the tick).
C3_NotAtBottomAtTickStart ==
    [][ ( /\ last'.op = "update_for" /\ ~crashed'
          /\ Live
          /\ screen.last_dimensions[2] >= 5 /\ term[2] >= 5
          /\ ~AtBottom(screen.table_view)
          /\ Len(screen'.table_view.rows) > Len(screen.table_view.rows) )
        => screen'.table_view.scroll = screen.table_view.scroll ]_vars

\* C3 amended: a view that is not at bottom when the tick's table update
\* starts, that is after the tick's resize check has applied the surface size,
\* keeps the offset it has at that point, however many rows the tick appends.
C3_ScrolledAwayStays ==
    [][ ( /\ last'.op = "update_for" /\ ~crashed'
          /\ Live
          /\ ~AtBottom(AfterResizeCheck) )
        => screen'.table_view.scroll = AfterResizeCheck.scroll ]_vars

\* a tick has appended rows to a view the user had scrolled away from the tail
C3_Witness ==
    /\ TickDone /\ Live
    /\ ~last.iab /\ last.added > 0
    /\ ~AtBottom(screen.table_view)

\* C4: a tick shows the placeholder and draws no rows exactly when the status
\* is New, whatever the source holds; in the other statuses it shows live rows.
C4_PlaceholderIffNew ==
    TickDone =>
        /\ (drawn.table = "preparing table") <=> (table.computation_status.kind = "New")
        /\ table.computation_status.kind = "New" => last.added = 0
        /\ table.computation_status.kind \in {"ComputingGeiger", "ComputingTrust", "Done"}
              => drawn.table = "live"

\* a tick in status New has drawn the placeholder although the source holds rows
C4_Witness ==
    /\ TickDone
    /\ table.computation_status.kind = "New"
    /\ Len(table.deps) > 0
    /\ drawn.table = "preparing table"

\* resize has just run: on its own, in a tick or in the constructor
Resized == last.op \in {"new", "resize", "update_for"}

\* C5: after a resize to a surface (w, h) with h >= 5: table.height + 4 = h,
\* input.width + hint.width = w, input.width = w / 2, hint.left = input.width.
C5_Layout ==
    (Resized /\ ~crashed /\ term[2] >= 5) =>
        /\ screen.table_view.area.height + 4 = term[2]
        /\ screen.input_area.width + screen.hint_area.width = term[1]
        /\ screen.input_area.width = term[1] \div 2
        /\ screen.hint_area.left = screen.input_area.width

\* resize has laid out a surface of odd width
C5_Witness ==
    /\ last.op = "resize" /\ last.cleared
    /\ term = <<9, 6>>
    /\ screen.hint_area.width = 5

Inside(area, size) ==
    /\ area.left + area.width <= size[1]
    /\ area.top + area.height <= size[2]

\* C6: after construction and after every resize, for every surface size, each
\* region lies inside the surface and no h - 4, h - 3, h - 2 has underflowed
\* (stated here for the calls of resize that find a new size and lay the
\* surface out).
C6_RegionsInsideSurface ==
    (Resized /\ last.cleared) =>
        /\ ~crashed
        /\ Inside(screen.title_area, term)
        /\ Inside(screen.table_view.area, term)
        /\ Inside(screen.status_area, term)
        /\ Inside(screen.input_area, term)
        /\ Inside(screen.hint_area, term)

Regions(self) ==
    <<self.title_area, self.table_view.area, self.status_area, self.input_area,
      self.hint_area, self.table_view.widths, self.last_dimensions>>

\* C7: resize on a surface of the recorded size does nothing (no clear, regions,
\* viewport, column widths and last_dimensions unchanged); it clears and
\* recomputes only when the size differs, and then records the new size.
C7_ResizeShortCircuit ==
    [][ /\ last'.op = "resize" =>
            IF term = screen.last_dimensions
            THEN screen' = screen /\ ~last'.cleared /\ drawn' = drawn
            ELSE last'.cleared /\ screen'.last_dimensions = term
        /\ last'.op = "update_for" =>
            IF term = screen.last_dimensions
            THEN Regions(screen') = Regions(screen) /\ ~last'.cleared
            ELSE last'.cleared /\ screen'.last_dimensions = term ]_vars

\* resize has run on a laid-out surface of unchanged size and cleared nothing
C7_Witness ==
    /\ last.op = "resize" /\ ~last.cleared
    /\ screen.last_dimensions = term
    /\ term[2] >= 5
    /\ drawn.table = "live"

-----------------------------------------------------------------------------
\* Properties of the magnitude formatter

\* a >= b for two numbers given as base-1024 digits of the same length
RECURSIVE GeLimbs(_, _)
GeLimbs(a, b) ==
    IF a = <<>> THEN TRUE
    ELSE LET n == Len(a)
         IN  IF a[n] # b[n] THEN a[n] > b[n]
             ELSE GeLimbs(SubSeq(a, 1, n - 1), SubSeq(b, 1, n - 1))

\* n as base-1024 digits, len of them
RECURSIVE NatToLimbs(_, _)
NatToLimbs(n, len) ==
    IF len = 0 THEN <<>>
    ELSE <<n % LimbBase>> \o NatToLimbs(n \div LimbBase, len - 1)

\* floor(v / 1024^k), in as many digits as v
DivPow(v, k) ==
    [i \in 1..Len(v) |-> IF i + k <= Len(v) THEN v[i + k] ELSE 0]

\* l * 1024^k, in len digits
MulPow(l, k, len) ==
    [i \in 1..len |-> IF i > k /\ i - k <= Len(l) THEN l[i - k] ELSE 0]

\* the reference rule: the number of reductions for v
RefReductions(v) ==
    CHOOSE k \in 0..8 :
        /\ \A j \in 0..(k - 1) : GeLimbs(DivPow(v, j), NatToLimbs(1200, Len(v)))
        /\ k = 8 \/ ~GeLimbs(DivPow(v, k), NatToLimbs(1200, Len(v)))

RefSuffix(k) ==
    IF k = 0 THEN <<>> ELSE << <<"K", "M", "G", "T", "P", "E", "Z", "Y">>[k] >>

RefFormat(v) ==
    IF v = NatToLimbs(0, Len(v)) THEN <<>>
    ELSE LET k == RefReductions(v)
         IN  DecStr(ToNat(DivPow(v, k))) \o RefSuffix(k)

\* C8: the formatter follows the reference rule on every input: "" for 0,
\* else the decimal digits of v reduced by 1024 while v >= 1200 (at most 8
\* times) and the suffix of that many reductions; 999, 1199 and 1200 give
\* "999", "1199" and "1K".
C8_FormatIsReference ==
    fmt.done =>
        /\ fmt.out = RefFormat(fmt.v)
        /\ fmt.v = NatToLimbs(0, 7) => fmt.out = <<>>
        /\ fmt.v = NatToLimbs(999, 7) => fmt.out = <<"9", "9", "9">>
        /\ fmt.v = NatToLimbs(1199, 7) => fmt.out = <<"1", "1", "9", "9">>
        /\ fmt.v = NatToLimbs(1200, 7) => fmt.out = <<"1", "K">>

\* 1199, just under the threshold and over 1024, has been formatted unreduced
C8_Witness ==
    /\ fmt.done
    /\ fmt.v = <<175, 1, 0, 0, 0, 0, 0>>
    /\ fmt.out = <<"1", "1", "9", "9">>

\* the output read back: its numeral and the reductions its suffix stands for
IsDigit(c) == \E d \in 1..10 : Digits[d] = c
DigitValue(c) == (CHOOSE d \in 1..10 : Digits[d] = c) - 1

RECURSIVE ParseDec(_)
ParseDec(str) ==
    IF str = <<>> THEN 0
    ELSE ParseDec(SubSeq(str, 1, Len(str) - 1)) * 10 + DigitValue(str[Len(str)])

HasSuffix(out) == out # <<>> /\ ~IsDigit(out[Len(out)])
Numeral(out) ==
    ParseDec(IF HasSuffix(out) THEN SubSeq(out, 1, Len(out) - 1) ELSE out)
Reductions(out) ==
    IF HasSuffix(out)
    THEN (CHOOSE i \in 1..Len(SIZE_NAMES) : SIZE_NAMES[i] = out[Len(out)]) - 1
    ELSE 0

\* digits enough for (n + 1) * 1024^k with n < 2^30 and k <= 8
CompareLimbs == 12

\* C9: for every v > 0 with output numeral n and a suffix of k reductions,
\* n * 1024^k <= v < (n + 1) * 1024^k.
C9_NumeralIsFloor ==
    (fmt.done /\ ~IsZero(fmt.v)) =>
        LET n == Numeral(fmt.out)
            k == Reductions(fmt.out)
            v == MulPow(fmt.v, 0, CompareLimbs)
            lower == MulPow(NatToLimbs(n, 3), k, CompareLimbs)
            upper == MulPow(NatToLimbs(n + 1, 3), k, CompareLimbs)
        IN  /\ fmt.out # <<>>
            /\ GeLimbs(v, lower)
            /\ ~GeLimbs(v, upper)

\* u64::MAX has been formatted: six reductions, "15E"
C9_Witness ==
    /\ fmt.done
    /\ fmt.v = <<1023, 1023, 1023, 1023, 1023, 1023, 15>>
    /\ fmt.out = <<"1", "5", "E">>

-----------------------------------------------------------------------------
\* Properties of the width allocation

AllocColumns == screen.table_view.columns
AllocWidths == screen.table_view.widths
\* resize has just laid the columns out in the surface width term[1]
Allocated == last.op = "resize" /\ last.cleared /\ ~crashed

\* C10: with min_width <= max_width in every column and an available width of
\* at least the sum of min_width: each width lies in [min_width, max_width],
\* the widths sum to at most the available width, and a column gets more than
\* its min_width only if every earlier column is at its max_width.
C10_WideAllocation ==
    (Allocated /\ term[1] >= SumMin(AllocColumns)) =>
        /\ Len(AllocWidths) = Len(AllocColumns)
        /\ \A j \in 1..Len(AllocColumns) :
              /\ AllocColumns[j].min_width <= AllocColumns[j].max_width
              /\ AllocWidths[j] >= AllocColumns[j].min_width
              /\ AllocWidths[j] <= AllocColumns[j].max_width
              /\ AllocWidths[j] > AllocColumns[j].min_width
                    => \A i \in 1..(j - 1) : AllocWidths[i] = AllocColumns[i].max_width
        /\ SumSeq(AllocWidths) <= term[1]

\* the 13 columns laid out in 80 cells: the 9 cells of slack go to "crate"
C10_Witness ==
    /\ Allocated
    /\ AllocColumns = Columns
    /\ term[1] = 80
    /\ AllocWidths = <<19, 9, 6, 12, 3, 3, 6, 6, 2, 3, 2, 3, 6>>

\* the longest prefix of the columns whose cumulative min_width fits in width
FittingPrefix(cols, width) ==
    CHOOSE n \in 0..Len(cols) :
        /\ SumMin(SubSeq(cols, 1, n)) <= width
        /\ \A m \in (n + 1)..Len(cols) : SumMin(SubSeq(cols, 1, m)) > width

\* C11: with an available width below the sum of min_width, the widths are
\* min_width for the longest prefix of columns whose cumulative min_width fits
\* and 0 for every later column; no width lies strictly between 0 and min_width.
C11_NarrowAllocation ==
    (Allocated /\ term[1] < SumMin(AllocColumns)) =>
        /\ Len(AllocWidths) = Len(AllocColumns)
        /\ \A j \in 1..Len(AllocColumns) :
              /\ AllocWidths[j] =
                    IF j <= FittingPrefix(AllocColumns, term[1])
                    THEN AllocColumns[j].min_width ELSE 0
              /\ ~(0 < AllocWidths[j] /\ AllocWidths[j] < AllocColumns[j].min_width)

\* the 13 columns laid out in 70 cells: all but the last get their min_width
C11_Witness ==
    /\ Allocated
    /\ AllocColumns = Columns
    /\ term[1] = 70
    /\ AllocWidths = <<10, 9, 6, 12, 3, 3, 6, 6, 2, 3, 2, 3, 0>>

\* the calls of one tick, in order
TickSteps == [k \in 1..Len(last.steps) |-> last.steps[k].step]

\* the region a step of the tick worked on
StepArea(k) == last.steps[k].area

\* C12: a tick performs, once each and in this order, the resize check, the
\* title, the table, the status, the input line and the hint; every drawing
\* step works on the region laid out for the current surface size, so nothing
\* is drawn before the tick's resize check.
C12_TickOrder ==
    TickDone =>
        /\ TickSteps = <<"resize", "update_title", "update_table_view",
                         "update_status", "update_input", "update_hint">>
        /\ screen.last_dimensions = term
        /\ StepArea(1) = Area(0, 0, term[1], term[2])
        /\ StepArea(2) = screen.title_area
        /\ StepArea(3) = screen.table_view.area
        /\ StepArea(4) = screen.status_area
        /\ StepArea(5) = screen.input_area
        /\ StepArea(6) = screen.hint_area

\* a tick that found the surface resized and drew all five regions after it
C12_Witness ==
    /\ TickDone
    /\ last.cleared
    /\ Len(last.steps) = 6
    /\ term = <<80, 7>>
    /\ StepArea(2).width = 80
    /\ \A f \in DOMAIN drawn : drawn[f] # Blank

QuitHint == "Hit *ctrl-q* to quit"
ScrollHint == "Hit *ctrl-q* to quit, *PageUp* or *PageDown* to scroll"

\* C13 as stated: the hint is the quit-only one exactly when no row has
\* arrived from the source, and the one with the scroll keys once rows arrived.
C13_HintFollowsRows ==
    TickDone =>
        /\ (table.deps = <<>>) => drawn.hint = QuitHint
        /\ (table.deps # <<>>) => drawn.hint = ScrollHint

\* C13: the hint follows the computation status: quit-only while the status is
\* New, with the scroll keys once the status has left New, whatever the rows.
C13_HintFollowsStatus ==
    TickDone =>
        drawn.hint = IF table.computation_status.kind = "New"
                     THEN QuitHint ELSE ScrollHint

\* both ways the rows and the hint part: rows held in New under the quit-only
\* hint, or no row yet under the hint with the scroll keys
C13_Witness ==
    /\ TickDone
    /\ \/ table.deps # <<>> /\ drawn.hint = QuitHint
       \/ table.deps = <<>> /\ drawn.hint = ScrollHint

\* the status a drawn status line shows
ShownKind(text) ==
    CASE text[1] = "Computation starting..." -> "New"
      [] text[1] = "Computing Geiger : " -> "ComputingGeiger"
      [] text[1] = "Computing Trust : " -> "ComputingTrust"
      [] text[1] = "Computation finished" -> "Done"

ShownRank(text) == Rank(Status(ShownKind(text), 0, 0))

\* a tick that is given a status earlier than the one the previous tick drew
BackwardTick ==
    /\ drawn.status # Blank
    /\ Rank(table.computation_status) < ShownRank(drawn.status)
    /\ last'.op = "update_for"
    /\ ~crashed'

\* C14: a tick given a status earlier than one it has already rendered ignores
\* it: the status line and the placeholder/live choice stay those of the last
\* valid status, and the tick does not crash.
C14_BackwardIgnored ==
    [][BackwardTick =>
          /\ drawn'.status = drawn.status
          /\ drawn'.table = drawn.table]_vars

\* C14 (amended): a tick given a status earlier than the one the previous
\* tick drew does not ignore it: it renders that status like any other (status
\* line with its progress, placeholder in New and live table otherwise) and
\* runs to its end.
C14_BackwardRendered ==
    [][BackwardTick =>
          LET s == table.computation_status
          IN  /\ ShownKind(drawn'.status) = s.kind
              /\ s.kind \in {"ComputingGeiger", "ComputingTrust"} =>
                    /\ drawn'.status[2] = s.done
                    /\ drawn'.status[4] = s.total
              /\ drawn'.table = IF s.kind = "New" THEN "preparing table" ELSE "live"
              /\ last'.steps[Len(last'.steps)].step = "update_hint"]_vars

\* the buffer holds rows, which only a live tick ingests, and the tick that
\* just ended was given New again and drew the placeholder
C14_Witness ==
    /\ TickDone
    /\ table.computation_status.kind = "New"
    /\ screen.table_view.rows # <<>>
    /\ drawn.table = "preparing table"
    /\ drawn.status = <<"Computation starting...">>

\* the resize command: resize on the size the terminal reports, as the build
\* runs it
ResizeNow(self) == resize(self, term, overflow_checks)

\* the offset is inside the scroll range of the object
InRange(self) ==
    /\ 0 <= self.table_view.scroll
    /\ self.table_view.scroll <= Max(0, row_count(self.table_view) - tbody_height(self.table_view))

\* everything of the object but the scroll offset
ButOffset(self) == [self EXCEPT !.table_view.scroll = 0]

\* C15 as stated: the same resize or the same scroll command applied twice
\* gives the state applying it once gives, and a resize and a scroll command
\* give the same final state in either order.
C15_IdempotentAndCommuting ==
    ~crashed =>
        \A d \in Deltas :
            /\ try_scroll_lines(try_scroll_lines(screen, d), d) = try_scroll_lines(screen, d)
            /\ try_scroll_pages(try_scroll_pages(screen, d), d) = try_scroll_pages(screen, d)
            /\ LET r == ResizeNow(screen)
               IN  ~r.panicked =>
                     /\ ResizeNow(r.self).self = r.self
                     /\ ResizeNow(try_scroll_lines(screen, d)).self
                           = try_scroll_lines(r.self, d)
                     /\ ResizeNow(try_scroll_pages(screen, d)).self
                           = try_scroll_pages(r.self, d)

\* C15 (amended): the same resize applied twice gives the state applying it
\* once gives (the second is a no-op); a scroll command applied twice gives the
\* state applying it once gives only when it moved nothing or ended at the end
\* of the range it moves toward; a resize and a scroll command in either order
\* give the same regions, widths and rows and an offset inside the scroll
\* range, though not always the same offset.
C15_ResizeIdempotentScrollClamped ==
    ~crashed =>
        \A d \in Deltas :
            /\ LET once == try_scroll_lines(screen, d)
                   atEnd == \/ once = screen
                            \/ d > 0 /\ once.table_view.scroll = max_scroll(once.table_view)
                            \/ d < 0 /\ once.table_view.scroll = 0
               IN  atEnd => try_scroll_lines(once, d) = once
            /\ LET r == ResizeNow(screen)
                   again == ResizeNow(r.self)
                   scrollFirst == ResizeNow(try_scroll_lines(screen, d)).self
                   resizeFirst == try_scroll_lines(r.self, d)
                   pageFirst == ResizeNow(try_scroll_pages(screen, d)).self
                   pageLast == try_scroll_pages(r.self, d)
               IN  ~r.panicked =>
                     /\ again.self = r.self
                     /\ ~again.cleared
                     /\ ButOffset(scrollFirst) = ButOffset(resizeFirst)
                     /\ ButOffset(pageFirst) = ButOffset(pageLast)
                     /\ InRange(scrollFirst) /\ InRange(resizeFirst)
                     /\ InRange(pageFirst) /\ InRange(pageLast)

\* after a scroll command that moved the offset: repeating it moves further,
\* and a resize gives another offset before the command than after it
C15_Witness ==
    /\ ~crashed
    /\ last.op = "try_scroll_lines"
    /\ Offset > 0
    /\ \E d \in Deltas : try_scroll_lines(try_scroll_lines(screen, d), d) # try_scroll_lines(screen, d)
    /\ \E d \in Deltas :
          /\ ~ResizeNow(screen).panicked
          /\ ResizeNow(try_scroll_lines(screen, d)).self.table_view.scroll
                # try_scroll_lines(ResizeNow(screen).self, d).table_view.scroll

\* the offset a move of delta rows from the current offset ends at
MovedBy(delta) == Max(0, Min(Offset + delta, Max(0, TotalRows - ViewportHeight)))

\* C16: a page scroll by d ends at the offset a line scroll by
\* d * viewport_height ends at, and the scroll commands of the screen hand
\* their argument to the table as it is and change nothing but the offset.
C16_PagesAreLines ==
    ~crashed =>
        \A d \in Deltas :
            /\ table_try_scroll_pages(screen.table_view, d).scroll
                  = table_try_scroll_lines(screen.table_view, d * ViewportHeight).scroll
            /\ try_scroll_lines(screen, d)
                  = [screen EXCEPT !.table_view.scroll = MovedBy(d)]
            /\ try_scroll_pages(screen, d)
                  = [screen EXCEPT !.table_view.scroll = MovedBy(d * ViewportHeight)]

\* a page scroll has moved the offset of 3 rows in a viewport of 2
C16_Witness ==
    /\ ~crashed
    /\ last.op = "try_scroll_pages"
    /\ ViewportHeight = 2
    /\ TotalRows = 3
    /\ Offset = 1

\* C17: after a tick on a surface that is not empty, the viewport height is
\* the height of the table region, which is the surface height minus 4, and
\* the offset does not exceed max(0, total_rows - viewport_height).
C17_ViewportIsHeightMinus4 ==
    (TickDone /\ term # <<0, 0>>) =>
        /\ tbody_height(screen.table_view) = screen.table_view.area.height
        /\ screen.table_view.area.height = term[2] - 4
        /\ Offset <= Max(0, TotalRows - ViewportHeight)

BufferRows == screen.table_view.rows

\* a step that is a tick running to its end
TickStep == last'.op = "update_for" /\ ~crashed'

\* C18: the rows of the buffer are a prefix of the rows of the source, in the
\* same order; a live tick appends exactly the source rows from index
\* row_count on, so that afterwards the buffer holds as many rows as the
\* source; a tick in New appends nothing.
C18_BufferIsPrefix ==
    [][/\ Len(BufferRows') <= Len(table'.deps)
       /\ \A i \in 1..Len(BufferRows') : BufferRows'[i] = table'.deps[i]
       /\ (TickStep /\ Live) =>
             /\ BufferRows' = BufferRows \o SubSeq(table.deps, Len(BufferRows) + 1, Len(table.deps))
             /\ Len(BufferRows') = Len(table.deps)
       /\ (TickStep /\ ~Live) => BufferRows' = BufferRows]_vars

\* a live tick found one row in the buffer and appended the two the source
\* had gained
C18_Witness ==
    /\ TickDone
    /\ Live
    /\ last.added = 2
    /\ BufferRows = <<Dep(1), Dep(2), Dep(3)>>
    /\ table.deps = BufferRows

\* C20: for every v > 0 the loop of the formatter ends after at most 6
\* reductions, the suffix index stays inside the 9 entries of SIZE_NAMES, the
\* suffixes Z and Y are never produced, and the numeral lies in 1..1199.
C20_AtMostSixReductions ==
    (fmt.done /\ ~IsZero(fmt.v)) =>
        LET r == reduce(fmt.v, 0)
        IN  /\ r.i <= 6
            /\ r.i + 1 \in 1..Len(SIZE_NAMES)
            /\ Len(SIZE_NAMES) = 9
            /\ fmt.out # <<>>
            /\ Reductions(fmt.out) = r.i
            /\ fmt.out[Len(fmt.out)] \notin {"Z", "Y"}
            /\ Numeral(fmt.out) >= 1
            /\ Numeral(fmt.out) <= 1199

\* 15 * 1024^6 has been formatted: six reductions end at 15, under 1200
C20_Witness ==
    /\ fmt.done
    /\ fmt.v = <<0, 0, 0, 0, 0, 0, 15>>
    /\ Reductions(fmt.out) = 6
    /\ Numeral(fmt.out) = 15

\* C19: with a source that only moves the status forward, once a tick has
\* drawn the table as live rows no later tick draws the placeholder or the
\* quit-only hint, and a tick in Done draws the table as live rows.
C19_LiveStaysLive ==
    TickDone =>
        /\ live_drawn =>
              /\ drawn.table = "live"
              /\ drawn.table # "preparing table"
              /\ drawn.hint = ScrollHint
              /\ drawn.hint # QuitHint
        /\ table.computation_status.kind = "Done" => drawn.table = "live"

\* a tick in Done on a surface cleared since the rows were drawn: the rows in
\* the buffer were appended by an earlier live tick, and this one draws them
C19_Witness ==
    /\ TickDone
    /\ live_drawn
    /\ table.computation_status.kind = "Done"
    /\ last.cleared
    /\ last.added = 0
    /\ BufferRows # <<>>
    /\ drawn.table = "live"
    /\ drawn.hint = ScrollHint

====
